---- MODULE Spec2Model ----
(***************************************************************************)
(* A model of the file manager of src/main.py: the upload directory as a   *)
(* map from entry names to files and image folders, the five request       *)
(* handlers that read and write it, and the text post-processing of the    *)
(* preview page.  Names, paths and texts are sequences of one-character    *)
(* strings, so that splitting, trimming and matching are computed.         *)
(***************************************************************************)
EXTENDS Integers, Sequences, FiniteSets, TLC

VARIABLES
    fs,        \* uploads/: entry name -> absent | file | dir
    resp,      \* the response of the last request handled
    written,   \* history: name -> the content the last accepted write request carried
    nops,      \* number of requests handled so far
    text,      \* SpecText: an extracted text
    shown,     \* SpecText: what the preview displays for it
    disk,      \* SpecRace: the bytes of the one file both writers target
    wr,        \* SpecRace: writer -> [kind, data, pc, off]
    vw,        \* SpecViewDel: viewer -> [pc, media, k]
    dl         \* SpecViewDel: deleter -> [pc, listed]

vars == <<fs, resp, written, nops, text, shown, disk, wr, vw, dl>>

----------------------------------------------------------------------------
(* Bounds of the model *)

MaxOps == 4
MaxTextLen == 5
MaxDataLen == 3
ChunkLen == 2

----------------------------------------------------------------------------
(* Strings as sequences of characters *)

Whitespace == {" ", "\n", "\t", "\r"}

IsSpace(c) == c \in Whitespace

IsBlank(s) == \A i \in 1..Len(s) : IsSpace(s[i])

RECURSIVE LStrip(_)
LStrip(s) ==
    IF s = <<>> THEN s
    ELSE IF IsSpace(Head(s)) THEN LStrip(Tail(s)) ELSE s

RECURSIVE RStrip(_)
RStrip(s) ==
    IF s = <<>> THEN s
    ELSE IF IsSpace(s[Len(s)]) THEN RStrip(SubSeq(s, 1, Len(s) - 1)) ELSE s

\* str.strip()
Strip(s) == RStrip(LStrip(s))

StartsWith(s, p) == Len(s) >= Len(p) /\ SubSeq(s, 1, Len(p)) = p

EndsWith(s, p) == Len(s) >= Len(p) /\ SubSeq(s, Len(s) - Len(p) + 1, Len(s)) = p

\* the index of the last occurrence of character c in s, 0 when there is none
LastIndexOf(s, c) ==
    LET hits == {i \in 1..Len(s) : s[i] = c}
    IN  IF hits = {} THEN 0 ELSE CHOOSE i \in hits : \A j \in hits : j <= i

LowerChar(c) ==
    CASE c = "T" -> "t"
      [] c = "X" -> "x"
      [] c = "P" -> "p"
      [] c = "N" -> "n"
      [] c = "G" -> "g"
      [] OTHER -> c

Lower(s) == [i \in 1..Len(s) |-> LowerChar(s[i])]

RECURSIVE Join(_, _)
Join(parts, sep) ==
    IF parts = <<>> THEN <<>>
    ELSE IF Len(parts) = 1 THEN parts[1]
    ELSE parts[1] \o sep \o Join(Tail(parts), sep)

RECURSIVE SelectNonBlank(_)
SelectNonBlank(parts) ==
    IF parts = <<>> THEN <<>>
    ELSE IF IsBlank(Head(parts)) THEN SelectNonBlank(Tail(parts))
    ELSE <<Head(parts)>> \o SelectNonBlank(Tail(parts))

StripEach(parts) == [i \in 1..Len(parts) |-> Strip(parts[i])]

\* filename.split(".")[-1].lower()
Ext(name) == Lower(SubSeq(name, LastIndexOf(name, ".") + 1, Len(name)))

\* os.path.basename
Basename(path) == SubSeq(path, LastIndexOf(path, "/") + 1, Len(path))

\* os.path.splitext(filename)[0]: the last dot splits, unless only dots precede it
SplitextRoot(name) ==
    LET sep == LastIndexOf(name, "/")
        dot == LastIndexOf(name, ".")
    IN  IF dot > sep /\ \E i \in (sep + 1)..(dot - 1) : name[i] # "."
        THEN SubSeq(name, 1, dot - 1)
        ELSE name

----------------------------------------------------------------------------
(* re.sub(r'\n\s*\n+', '\n\n', s): leftmost matches, \s* greedy and         *)
(* backtracking until a newline follows it.                                 *)

\* the end of the whitespace run that follows position i
RECURSIVE SpaceRunEnd(_, _)
SpaceRunEnd(s, i) ==
    IF i + 1 <= Len(s) /\ IsSpace(s[i + 1]) THEN SpaceRunEnd(s, i + 1) ELSE i

\* a non-greedy \s*: the match would stop at the first newline after its start
MatchEndShortest(s, i) ==
    LET nls == {j \in (i + 1)..SpaceRunEnd(s, i) : s[j] = "\n"}
    IN  IF nls = {} THEN 0 ELSE CHOOSE j \in nls : \A k \in nls : j <= k

\* the end of the match that starts at the newline at i, 0 when there is none
MatchEnd(s, i) ==
    LET nls == {j \in (i + 1)..SpaceRunEnd(s, i) : s[j] = "\n"}
    IN  IF nls = {} THEN 0 ELSE CHOOSE j \in nls : \A k \in nls : k <= j

RECURSIVE SubFrom(_, _)
SubFrom(s, i) ==
    IF i > Len(s) THEN <<>>
    ELSE IF s[i] = "\n" /\ MatchEnd(s, i) # 0
         THEN <<"\n", "\n">> \o SubFrom(s, MatchEnd(s, i) + 1)
         ELSE <<s[i]>> \o SubFrom(s, i + 1)

CollapseBlankLines(s) == SubFrom(s, 1)

----------------------------------------------------------------------------
(* Names, file bodies and the upload directory *)

TxtName == <<"a", ".", "T", "x", "t">>

BareName == <<"t", "x", "t">>

PdfName == <<"p", ".", "p", "d", "f">>

DocxName == <<"d", ".", "d", "o", "c", "x">>

ImagesSuffix == <<"_", "i", "m", "a", "g", "e", "s">>

\* f"{filename}_images"
ImagesDir(name) == name \o ImagesSuffix

\* the names requests carry; the folder of DocxName is one of them
ReqNames == {TxtName, BareName, PdfName, DocxName, ImagesDir(DocxName)}

Names == ReqNames \cup {ImagesDir(n) : n \in ReqNames}

MediaPrefix == <<"w", "o", "r", "d", "/", "m", "e", "d", "i", "a", "/">>

PngSuffix == <<".", "p", "n", "g">>

JpgSuffix == <<".", "j", "p", "g">>

JpegSuffix == <<".", "j", "p", "e", "g">>

GifSuffix == <<".", "g", "i", "f">>

TextBody(t) == [kind |-> "text", text |-> t]

PdfBody(pages) == [kind |-> "pdf", pages |-> pages]

DocxBody(paras, media) == [kind |-> "docx", paras |-> paras, media |-> media]

NoBody == [kind |-> "none"]

ZipEntry(name, data) == [name |-> name, data |-> data]

TextA == TextBody(<<" ", "a", "\n", "\n", "\n", "b", "\n">>)

TextBlank == TextBody(<<" ", "\n">>)

PdfA == PdfBody(<< <<"a", "\n">>, <<" ">>, <<"b">> >>)

\* two media entries share a basename, one has an upper-case suffix, one lies outside word/media/
DocxA ==
    DocxBody(<< <<" ", "a">>, <<" ">>, <<"b">> >>,
             << ZipEntry(MediaPrefix \o <<"i">> \o PngSuffix, "png1"),
                ZipEntry(MediaPrefix \o <<"s", "/", "i">> \o PngSuffix, "png2"),
                ZipEntry(MediaPrefix \o <<"k", ".", "P", "N", "G">>, "png3"),
                ZipEntry(<<"w", "o", "r", "d", "/", "m">> \o JpgSuffix, "jpg4") >>)

\* a later version of the document: no text, other images
DocxB ==
    DocxBody(<< >>,
             << ZipEntry(MediaPrefix \o <<"j">> \o GifSuffix, "gif5"),
                ZipEntry(MediaPrefix \o <<"h">> \o JpegSuffix, "jpeg6") >>)

UploadBodies == {TextA, TextBlank, PdfA, DocxA, DocxB}

UpdateTexts == { <<" ", "z", "\n">>, <<"\n", " ">> }

Absent == [type |-> "absent"]

FileEntry(body) == [type |-> "file", body |-> body]

DirEntry(files) == [type |-> "dir", files |-> files]

NoFiles == [n \in {} |-> "none"]

\* os.path.exists
Exists(fsys, name) == fsys[name].type # "absent"

IsFile(fsys, name) == fsys[name].type = "file"

IsDir(fsys, name) == fsys[name].type = "dir"

\* f.read() with errors="ignore": the text of a text file, else what the bytes decode to
RawText(body) ==
    CASE body.kind = "text" -> body.text
      [] body.kind = "pdf" -> <<"%", "P", "D", "F">>
      [] body.kind = "docx" -> <<"P", "K">>

----------------------------------------------------------------------------
(* Responses *)

MsgUnsupportedPreview == <<"[Unsupported file format for preview.]">>

MsgDocxEmpty == <<"[This DOCX file appears empty or unsupported.]">>

MsgNoContent == <<"[No readable content found.]">>

MsgReadError == <<"[Error reading file: ...]">>

MsgNotFound == <<"File not found">>

MsgUnsupportedType == <<"Unsupported file type">>

MsgNoText == <<"No readable text found.">>

MsgExtractError == <<"Error extracting text: ...">>

ExtractedSuffix == <<"_", "e", "x", "t", "r", "a", "c", "t", "e", "d", ".", "t", "x", "t">>

Response(op, name, status, content, images, attach) ==
    [op |-> op, name |-> name, status |-> status, content |-> content,
     images |-> images, attach |-> attach]

\* RedirectResponse(url="/", status_code=303)
Redirect(op, name) == Response(op, name, 303, <<>>, <<>>, <<>>)

\* an exception no handler catches: the framework answers 500
ServerError(op, name) == Response(op, name, 500, <<>>, <<>>, <<>>)

NoResponse == Response("none", <<>>, 0, <<>>, <<>>, <<>>)

----------------------------------------------------------------------------
(* The handlers, as functions of the directory: [fs, resp] *)

Outcome(fsys, r) == [fs |-> fsys, resp |-> r]

\* a file opened for appending would keep the bytes it had
WriteAppending(old, body) ==
    IF old.type = "file" /\ old.body.kind = "text" /\ body.kind = "text"
    THEN FileEntry(TextBody(old.body.text \o body.text))
    ELSE FileEntry(body)

\* open(file_path, "wb") / open(file_path, "w") and the write: the file is
\* truncated, then holds the new bytes
WriteFile(old, body) == FileEntry(body)

\* upload_file; a directory of that name makes open() raise
upload_file(fsys, name, body) ==
    IF IsDir(fsys, name)
    THEN Outcome(fsys, ServerError("upload", name))
    ELSE Outcome([fsys EXCEPT ![name] = WriteFile(fsys[name], body)],
                 Redirect("upload", name))

\* the extension test of update_file
UpdatePermitted(name) == Ext(name) = <<"t", "x", "t">>

\* update_file
update_file(fsys, name, newContent) ==
    IF ~UpdatePermitted(name)
    THEN Outcome(fsys, Redirect("update", name))
    ELSE IF IsDir(fsys, name)
    THEN Outcome(fsys, ServerError("update", name))
    ELSE Outcome([fsys EXCEPT ![name] = WriteFile(fsys[name], TextBody(Strip(newContent)))],
                 Redirect("update", name))

\* delete_file: os.remove raises on a directory, shutil.rmtree raises on a regular file
delete_file(fsys, name) ==
    IF IsDir(fsys, name)
    THEN Outcome(fsys, ServerError("delete", name))
    ELSE LET removed == [fsys EXCEPT ![name] = Absent]
             imgDir == ImagesDir(name)
         IN  IF IsFile(removed, imgDir)
             THEN Outcome(removed, ServerError("delete", name))
             ELSE Outcome([removed EXCEPT ![imgDir] = Absent], Redirect("delete", name))

\* the test of the zip loop in view_file
IsImageEntry(entryName) ==
    /\ StartsWith(entryName, MediaPrefix)
    /\ \/ EndsWith(entryName, PngSuffix)
       \/ EndsWith(entryName, JpgSuffix)
       \/ EndsWith(entryName, JpegSuffix)
       \/ EndsWith(entryName, GifSuffix)

\* a loop that would not overwrite a file that is already there
RECURSIVE ExtractIntoKeepFirst(_, _)
ExtractIntoKeepFirst(files, media) ==
    IF media = <<>> THEN files
    ELSE LET e == Head(media)
         IN  ExtractIntoKeepFirst(IF IsImageEntry(e.name)
                                  THEN files @@ (Basename(e.name) :> e.data)
                                  ELSE files,
                                  Tail(media))

\* the files of the image folder after the zip loop ran over media
RECURSIVE ExtractInto(_, _)
ExtractInto(files, media) ==
    IF media = <<>> THEN files
    ELSE LET e == Head(media)
         IN  ExtractInto(IF IsImageEntry(e.name)
                         THEN (Basename(e.name) :> e.data) @@ files
                         ELSE files,
                         Tail(media))

\* f"/uploads/{filename}_images/{image_name}", as path components
ImageRef(name, imageName) == <<"uploads", ImagesDir(name), imageName>>

RECURSIVE ImageRefs(_, _)
ImageRefs(name, media) ==
    IF media = <<>> THEN <<>>
    ELSE IF IsImageEntry(Head(media).name)
         THEN <<ImageRef(name, Basename(Head(media).name))>> \o ImageRefs(name, Tail(media))
         ELSE ImageRefs(name, Tail(media))

\* the try block of view_file up to the collapsing: [raised, content, images, fs]
Extraction(raised, content, images, fsys) ==
    [raised |-> raised, content |-> content, images |-> images, fs |-> fsys]

ViewExtract(fsys, name) ==
    LET e == fsys[name]
        ext == Ext(name)
        failed == Extraction(TRUE, <<>>, <<>>, fsys)
    IN  CASE ext = <<"t", "x", "t">> ->
               IF e.type # "file" THEN failed
               ELSE Extraction(FALSE, RawText(e.body), <<>>, fsys)
          [] ext = <<"p", "d", "f">> ->
               IF e.type # "file" \/ e.body.kind # "pdf" THEN failed
               ELSE Extraction(FALSE,
                               Join(SelectNonBlank(StripEach(e.body.pages)), <<"\n", "\n">>),
                               <<>>, fsys)
          [] ext = <<"d", "o", "c", "x">> ->
               IF e.type # "file" \/ e.body.kind # "docx" THEN failed
               ELSE LET content == Join(SelectNonBlank(StripEach(e.body.paras)), <<"\n">>)
                        imgDir == ImagesDir(name)
                    IN  IF IsFile(fsys, imgDir) THEN failed
                        ELSE LET old == IF IsDir(fsys, imgDir) THEN fsys[imgDir].files
                                        ELSE NoFiles
                                 after == [fsys EXCEPT ![imgDir] =
                                              DirEntry(ExtractInto(old, e.body.media))]
                                 images == ImageRefs(name, e.body.media)
                             IN  Extraction(FALSE,
                                            IF IsBlank(content) /\ images = <<>>
                                            THEN MsgDocxEmpty ELSE content,
                                            images, after)
          [] OTHER -> Extraction(FALSE, MsgUnsupportedPreview, <<>>, fsys)

\* lines 90-96 of view_file: trim, collapse, and the placeholder for nothing to show
Displayed(x) ==
    LET content == IF x.raised THEN MsgReadError
                   ELSE CollapseBlankLines(Strip(x.content))
    IN  IF IsBlank(content) /\ x.images = <<>> THEN MsgNoContent ELSE content

\* view_file
view_file(fsys, name) ==
    IF ~Exists(fsys, name)
    THEN Outcome(fsys, Redirect("view", name))
    ELSE LET x == ViewExtract(fsys, name)
         IN  Outcome(x.fs, Response("view", name, 200, Displayed(x), x.images, <<>>))

\* the try block of download_text: [raised, content]
DownloadExtract(fsys, name) ==
    LET e == fsys[name]
        ext == Ext(name)
        failed == [raised |-> TRUE, content |-> <<>>]
    IN  CASE ext = <<"t", "x", "t">> ->
               IF e.type # "file" THEN failed
               ELSE [raised |-> FALSE, content |-> RawText(e.body)]
          [] ext = <<"p", "d", "f">> ->
               IF e.type # "file" \/ e.body.kind # "pdf" THEN failed
               ELSE [raised |-> FALSE,
                     content |-> Strip(Join(e.body.pages, <<"\n", "\n">>))]
          [] ext = <<"d", "o", "c", "x">> ->
               IF e.type # "file" \/ e.body.kind # "docx" THEN failed
               ELSE [raised |-> FALSE,
                     content |-> Join(SelectNonBlank(e.body.paras), <<"\n">>)]

SupportedExt(name) ==
    Ext(name) \in { <<"t", "x", "t">>, <<"p", "d", "f">>, <<"d", "o", "c", "x">> }

\* a handler that would test the extension before the existence of the file
DownloadUnsupportedFirst(fsys, name) ==
    IF ~SupportedExt(name)
    THEN Response("download", name, 400, MsgUnsupportedType, <<>>, <<>>)
    ELSE IF ~Exists(fsys, name)
    THEN Response("download", name, 404, MsgNotFound, <<>>, <<>>)
    ELSE LET x == DownloadExtract(fsys, name)
         IN  IF x.raised
             THEN Response("download", name, 500, MsgExtractError, <<>>, <<>>)
             ELSE IF IsBlank(x.content)
             THEN Response("download", name, 204, MsgNoText, <<>>, <<>>)
             ELSE Response("download", name, 200, x.content, <<>>,
                           SplitextRoot(name) \o ExtractedSuffix)

\* download_text: the outcomes in the order the handler decides them
download_text(fsys, name) ==
    IF ~Exists(fsys, name)
    THEN Response("download", name, 404, MsgNotFound, <<>>, <<>>)
    ELSE IF ~SupportedExt(name)
    THEN Response("download", name, 400, MsgUnsupportedType, <<>>, <<>>)
    ELSE LET x == DownloadExtract(fsys, name)
         IN  IF x.raised
             THEN Response("download", name, 500, MsgExtractError, <<>>, <<>>)
             ELSE IF IsBlank(x.content)
             THEN Response("download", name, 204, MsgNoText, <<>>, <<>>)
             ELSE Response("download", name, 200, x.content, <<>>,
                           SplitextRoot(name) \o ExtractedSuffix)

----------------------------------------------------------------------------
(* The requests, handled one at a time *)

otherVars == <<text, shown, disk, wr, vw, dl>>

EmptyDir == [n \in Names |-> Absent]

Init ==
    /\ fs = EmptyDir
    /\ resp = NoResponse
    /\ written = [n \in ReqNames |-> NoBody]
    /\ nops = 0
    /\ text = <<>>
    /\ shown = <<>>
    /\ disk = <<>>
    /\ wr = <<>>
    /\ vw = <<>>
    /\ dl = <<>>

Handled(out) ==
    /\ fs' = out.fs
    /\ resp' = out.resp
    /\ nops' = nops + 1
    /\ UNCHANGED otherVars

Upload(name, body) ==
    /\ nops < MaxOps
    /\ Handled(upload_file(fs, name, body))
    /\ written' = [written EXCEPT ![name] = body]

Update(name, newContent) ==
    /\ nops < MaxOps
    /\ Handled(update_file(fs, name, newContent))
    /\ written' = IF UpdatePermitted(name)
                  THEN [written EXCEPT ![name] = TextBody(Strip(newContent))]
                  ELSE written

View(name) ==
    /\ nops < MaxOps
    /\ Handled(view_file(fs, name))
    /\ UNCHANGED written

Download(name) ==
    /\ nops < MaxOps
    /\ Handled(Outcome(fs, download_text(fs, name)))
    /\ UNCHANGED written

Delete(name) ==
    /\ nops < MaxOps
    /\ Handled(delete_file(fs, name))
    /\ UNCHANGED written

Next ==
    \/ \E name \in ReqNames, body \in UploadBodies : Upload(name, body)
    \/ \E name \in ReqNames, newContent \in UpdateTexts : Update(name, newContent)
    \/ \E name \in ReqNames : View(name)
    \/ \E name \in ReqNames : Download(name)
    \/ \E name \in ReqNames : Delete(name)

Spec == Init /\ [][Next]_vars

----------------------------------------------------------------------------
(* SpecText: the preview's post-processing applied to every short text *)

TextChars == {"a", "b", " ", "\n", "\r"}

Texts == UNION {[1..n -> TextChars] : n \in 0..MaxTextLen}

SomeImage == <<ImageRef(DocxName, <<"i">> \o PngSuffix)>>

InitText ==
    /\ text \in Texts
    /\ shown = <<>>
    /\ nops = 0
    /\ fs = EmptyDir
    /\ resp = NoResponse
    /\ written = [n \in ReqNames |-> NoBody]
    /\ disk = <<>>
    /\ wr = <<>>
    /\ vw = <<>>
    /\ dl = <<>>

\* the text is all the extraction found
RenderText ==
    /\ nops = 0
    /\ shown' = Displayed(Extraction(FALSE, text, <<>>, fs))
    /\ nops' = 1
    /\ resp' = Response("view", TxtName, 200, shown', <<>>, <<>>)
    /\ UNCHANGED <<fs, written, text, disk, wr, vw, dl>>

\* the text of a document that also holds an image
RenderTextWithImage ==
    /\ nops = 0
    /\ shown' = Displayed(Extraction(FALSE, text, SomeImage, fs))
    /\ nops' = 1
    /\ resp' = Response("view", DocxName, 200, shown', SomeImage, <<>>)
    /\ UNCHANGED <<fs, written, text, disk, wr, vw, dl>>

NextText == RenderText \/ RenderTextWithImage

SpecText == InitText /\ [][NextText]_vars

----------------------------------------------------------------------------
(* SpecRace: two requests write the same file name concurrently.  Each     *)
(* opens the file, which truncates it, then writes its bytes in chunks at  *)
(* its own offset, then closes.                                             *)

Writers == {1, 2}

Min(a, b) == IF a <= b THEN a ELSE b

Max(a, b) == IF a >= b THEN a ELSE b

Repeat(c, n) == [i \in 1..n |-> c]

\* write(2) of chunk at offset off: the file grows as needed, a gap reads as zero bytes
PWrite(bytes, off, chunk) ==
    [i \in 1..Max(Len(bytes), off + Len(chunk)) |->
        IF i > off /\ i <= off + Len(chunk) THEN chunk[i - off]
        ELSE IF i <= Len(bytes) THEN bytes[i]
        ELSE "0"]

Writer(kind, data) == [kind |-> kind, data |-> data, pc |-> "start", off |-> 0]

\* the first request is an upload, the second an upload or an update
FirstWriters == {Writer("upload", Repeat("a", n)) : n \in 1..MaxDataLen}

SecondWriters ==
    {Writer("upload", Repeat("b", n)) : n \in 0..MaxDataLen}
    \cup {Writer("update", Strip(<<" ">> \o Repeat("b", n) \o <<"\n">>)) : n \in 0..MaxDataLen}

InitRace ==
    /\ disk \in {<<>>, <<"o", "l", "d", "!">>}
    /\ wr \in {<<w1, w2>> : w1 \in FirstWriters, w2 \in SecondWriters}
    /\ fs = EmptyDir
    /\ resp = NoResponse
    /\ written = [n \in ReqNames |-> NoBody]
    /\ nops = 0
    /\ text = <<>>
    /\ shown = <<>>
    /\ vw = <<>>
    /\ dl = <<>>

raceFrame == <<fs, resp, written, nops, text, shown, vw, dl>>

\* open(file_path, "wb") / open(file_path, "w")
OpenTruncate(i) ==
    /\ wr[i].pc = "start"
    /\ disk' = <<>>
    /\ wr' = [wr EXCEPT ![i].pc = "writing", ![i].off = 0]
    /\ UNCHANGED raceFrame

\* one flush of the buffered writer
WriteChunk(i) ==
    /\ wr[i].pc = "writing"
    /\ wr[i].off < Len(wr[i].data)
    /\ LET upto == Min(wr[i].off + ChunkLen, Len(wr[i].data))
       IN  /\ disk' = PWrite(disk, wr[i].off, SubSeq(wr[i].data, wr[i].off + 1, upto))
           /\ wr' = [wr EXCEPT ![i].off = upto]
    /\ UNCHANGED raceFrame

\* leaving the with block
CloseFile(i) ==
    /\ wr[i].pc = "writing"
    /\ wr[i].off = Len(wr[i].data)
    /\ wr' = [wr EXCEPT ![i].pc = "done"]
    /\ UNCHANGED <<disk, fs, resp, written, nops, text, shown, vw, dl>>

NextRace == \E i \in Writers : OpenTruncate(i) \/ WriteChunk(i) \/ CloseFile(i)

SpecRace == InitRace /\ [][NextRace]_vars

----------------------------------------------------------------------------
(* SpecViewDel: view_file and delete_file of one DOCX file, statement by   *)
(* statement, with no lock between them.                                    *)

Viewers == {1, 2}

Deleters == {1}

DocxDir == ImagesDir(DocxName)

Viewer(pc, media) == [pc |-> pc, media |-> media]

InitViewDel ==
    /\ \E body \in {DocxA, DocxB} :
         fs \in { [EmptyDir EXCEPT ![DocxName] = FileEntry(body)],
                  [EmptyDir EXCEPT ![DocxName] = FileEntry(body),
                                   ![DocxDir] = DirEntry(ExtractInto(NoFiles, body.media))] }
    /\ vw = [i \in Viewers |-> Viewer("exists", <<>>)]
    /\ dl = [i \in Deleters |-> "exists"]
    /\ resp = NoResponse
    /\ written = [n \in ReqNames |-> NoBody]
    /\ nops = 0
    /\ text = <<>>
    /\ shown = <<>>
    /\ disk = <<>>
    /\ wr = <<>>

vdFrame == <<resp, written, nops, text, shown, disk, wr>>

IsDocxFile(fsys, name) == IsFile(fsys, name) /\ fsys[name].body.kind = "docx"

\* line 44: if not os.path.exists(file_path)
ViewCheckExists(i) ==
    /\ vw[i].pc = "exists"
    /\ vw' = [vw EXCEPT ![i].pc = IF Exists(fs, DocxName) THEN "document" ELSE "done"]
    /\ UNCHANGED <<fs, dl>>
    /\ UNCHANGED vdFrame

\* line 66: Document(file_path); a missing file raises into the except clause
ViewOpenDocument(i) ==
    /\ vw[i].pc = "document"
    /\ vw' = [vw EXCEPT ![i].pc = IF IsDocxFile(fs, DocxName) THEN "makedirs" ELSE "done"]
    /\ UNCHANGED <<fs, dl>>
    /\ UNCHANGED vdFrame

\* line 71: os.makedirs(img_dir, exist_ok=True)
ViewMakedirs(i) ==
    /\ vw[i].pc = "makedirs"
    /\ IF IsFile(fs, DocxDir)
       THEN /\ vw' = [vw EXCEPT ![i].pc = "done"]
            /\ UNCHANGED fs
       ELSE /\ vw' = [vw EXCEPT ![i].pc = "zip"]
            /\ fs' = IF IsDir(fs, DocxDir) THEN fs
                     ELSE [fs EXCEPT ![DocxDir] = DirEntry(NoFiles)]
    /\ UNCHANGED dl
    /\ UNCHANGED vdFrame

\* line 73: zipfile.ZipFile(file_path, "r"); the open archive outlives an unlink
ViewOpenZip(i) ==
    /\ vw[i].pc = "zip"
    /\ vw' = IF IsDocxFile(fs, DocxName)
             THEN [vw EXCEPT ![i] = Viewer("loop", fs[DocxName].body.media)]
             ELSE [vw EXCEPT ![i].pc = "done"]
    /\ UNCHANGED <<fs, dl>>
    /\ UNCHANGED vdFrame

\* lines 74-82: one turn of the loop; open(image_path, "wb") raises when the folder is gone
ViewLoop(i) ==
    /\ vw[i].pc = "loop"
    /\ IF vw[i].media = <<>>
       THEN /\ vw' = [vw EXCEPT ![i].pc = "done"]
            /\ UNCHANGED fs
       ELSE LET e == Head(vw[i].media)
            IN  IF ~IsImageEntry(e.name)
                THEN /\ vw' = [vw EXCEPT ![i].media = Tail(vw[i].media)]
                     /\ UNCHANGED fs
                ELSE IF ~IsDir(fs, DocxDir)
                THEN /\ vw' = [vw EXCEPT ![i].pc = "done"]
                     /\ UNCHANGED fs
                ELSE /\ vw' = [vw EXCEPT ![i].media = Tail(vw[i].media)]
                     /\ fs' = [fs EXCEPT ![DocxDir] =
                                  DirEntry(ExtractInto(fs[DocxDir].files, <<e>>))]
    /\ UNCHANGED dl
    /\ UNCHANGED vdFrame

\* line 167: if os.path.exists(file_path)
DeleteCheckFile(i) ==
    /\ dl[i] = "exists"
    /\ dl' = [dl EXCEPT ![i] = IF Exists(fs, DocxName) THEN "remove" ELSE "exists_dir"]
    /\ UNCHANGED <<fs, vw>>
    /\ UNCHANGED vdFrame

\* line 168: os.remove(file_path)
DeleteRemove(i) ==
    /\ dl[i] = "remove"
    /\ IF IsFile(fs, DocxName)
       THEN /\ fs' = [fs EXCEPT ![DocxName] = Absent]
            /\ dl' = [dl EXCEPT ![i] = "exists_dir"]
       ELSE /\ dl' = [dl EXCEPT ![i] = "done"]
            /\ UNCHANGED fs
    /\ UNCHANGED vw
    /\ UNCHANGED vdFrame

\* line 170: if os.path.exists(img_dir)
DeleteCheckDir(i) ==
    /\ dl[i] = "exists_dir"
    /\ dl' = [dl EXCEPT ![i] = IF Exists(fs, DocxDir) THEN "rmtree" ELSE "done"]
    /\ UNCHANGED <<fs, vw>>
    /\ UNCHANGED vdFrame

\* line 171: shutil.rmtree(img_dir), first half: the files it lists are unlinked
DeleteUnlinkListed(i) ==
    /\ dl[i] = "rmtree"
    /\ IF IsDir(fs, DocxDir)
       THEN /\ fs' = [fs EXCEPT ![DocxDir] = DirEntry(NoFiles)]
            /\ dl' = [dl EXCEPT ![i] = "rmdir"]
       ELSE /\ dl' = [dl EXCEPT ![i] = "done"]
            /\ UNCHANGED fs
    /\ UNCHANGED vw
    /\ UNCHANGED vdFrame

\* line 171, second half: os.rmdir raises when a file has appeared meanwhile
DeleteRmdir(i) ==
    /\ dl[i] = "rmdir"
    /\ dl' = [dl EXCEPT ![i] = "done"]
    /\ fs' = IF IsDir(fs, DocxDir) /\ DOMAIN fs[DocxDir].files = {}
             THEN [fs EXCEPT ![DocxDir] = Absent]
             ELSE fs
    /\ UNCHANGED vw
    /\ UNCHANGED vdFrame

NextViewDel ==
    \/ \E i \in Viewers :
          \/ ViewCheckExists(i)
          \/ ViewOpenDocument(i)
          \/ ViewMakedirs(i)
          \/ ViewOpenZip(i)
          \/ ViewLoop(i)
    \/ \E i \in Deleters :
          \/ DeleteCheckFile(i)
          \/ DeleteRemove(i)
          \/ DeleteCheckDir(i)
          \/ DeleteUnlinkListed(i)
          \/ DeleteRmdir(i)

SpecViewDel == InitViewDel /\ [][NextViewDel]_vars

----------------------------------------------------------------------------
(* Properties *)

\* a step of Spec that handled a request of kind op
Handles(op) == nops' = nops + 1 /\ resp'.op = op

Entries(fsys) == {n \in Names : Exists(fsys, n)}

\* C1: whenever a name exists as a file, its content is exactly what the most
\* recent accepted write of that name carried: the body of the last upload, or
\* the trimmed new_content of a later update; nothing of an earlier body
\* remains, and view, download and delete of other names never change it.
C1_StoredIsLastWrite ==
    \A n \in ReqNames : IsFile(fs, n) => fs[n].body = written[n]

\* C1 witness: the document was uploaded, viewed, and uploaded again with
\* another body; the second body is what is stored.
C1_Witness ==
    /\ IsFile(fs, DocxName) /\ fs[DocxName].body = DocxB
    /\ IsDir(fs, DocxDir) /\ (<<"i">> \o PngSuffix) \in DOMAIN fs[DocxDir].files
    /\ resp.op = "upload"

\* C2: every delete answers 303 and leaves neither the entry nor its _images
\* entry behind, and a second delete answers the same and changes nothing.
C2_DeleteAlwaysRemoves ==
    resp.op = "delete" =>
        /\ resp.status = 303
        /\ ~Exists(fs, resp.name)
        /\ ~Exists(fs, ImagesDir(resp.name))
        /\ delete_file(fs, resp.name) = Outcome(fs, resp)

\* the status the five-way decision of C3 prescribes
C3_Status(fsys, name) ==
    IF ~Exists(fsys, name) THEN 404
    ELSE IF Ext(name) \notin { <<"t", "x", "t">>, <<"p", "d", "f">>, <<"d", "o", "c", "x">> }
    THEN 400
    ELSE IF DownloadExtract(fsys, name).raised THEN 500
    ELSE IF Strip(DownloadExtract(fsys, name).content) = <<>> THEN 204
    ELSE 200

\* the name without its last dot-suffix
C3_Base(name) ==
    IF LastIndexOf(name, ".") = 0 THEN name
    ELSE SubSeq(name, 1, LastIndexOf(name, ".") - 1)

\* C3: a download answers 404, 400, 500, 204 or 200, decided in that order;
\* a 200 carries the extracted text and the attachment name
\* <base>_extracted.txt; the directory is the same before and after.
C3_DownloadOutcome ==
    [][Handles("download") =>
          /\ fs' = fs
          /\ resp'.status = C3_Status(fs, resp'.name)
          /\ resp'.status = 200 =>
                /\ resp'.content = DownloadExtract(fs, resp'.name).content
                /\ resp'.attach = C3_Base(resp'.name) \o ExtractedSuffix]_vars

\* C3 witness: a download of the stored text file answered 200 with its text.
C3_Witness ==
    /\ resp.op = "download" /\ resp.name = TxtName /\ resp.status = 200
    /\ resp.attach = <<"a">> \o ExtractedSuffix
    /\ resp.content = TextA.text

\* a name that ends in the dot-suffix .txt, in any case
HasTxtSuffix(name) == EndsWith(Lower(name), <<".", "t", "x", "t">>)

\* C4: an update of a name without the .txt dot-suffix answers 303 and leaves
\* the whole directory as it was; an update of a .txt name stores exactly the
\* trimmed new content.
C4_UpdateOnlyTxt ==
    [][Handles("update") =>
          IF HasTxtSuffix(resp'.name)
          THEN \E c \in UpdateTexts : fs'[resp'.name] = FileEntry(TextBody(Strip(c)))
          ELSE resp'.status = 303 /\ fs' = fs]_vars

\* C5: an update of a name that does not exist answers 303 and creates
\* nothing: the set of entries is unchanged.
C5_UpdateCreatesNothing ==
    [][(Handles("update") /\ ~Exists(fs, resp'.name)) =>
          resp'.status = 303 /\ Entries(fs') = Entries(fs)]_vars

\* a successful preview of a stored DOCX file is the last response
ViewedDocx ==
    /\ resp.op = "view" /\ resp.status = 200
    /\ Ext(resp.name) = <<"d", "o", "c", "x">>
    /\ IsDocxFile(fs, resp.name)
    /\ resp.content # MsgReadError
    /\ IsDir(fs, ImagesDir(resp.name))

\* the media entries the preview extracts, in archive order
RECURSIVE ImageEntries(_)
ImageEntries(media) ==
    IF media = <<>> THEN <<>>
    ELSE IF IsImageEntry(Head(media).name)
         THEN <<Head(media)>> \o ImageEntries(Tail(media))
         ELSE ImageEntries(Tail(media))

RefFiles(images) == {images[i][3] : i \in 1..Len(images)}

\* C7 as claimed: after a successful preview of a DOCX file there is one
\* reference per image entry of the stored archive, the folder holds exactly
\* the files the references name, and no two references name the same file.
C7_FolderIsExactlyReferences ==
    ViewedDocx =>
        /\ Len(resp.images) = Len(ImageEntries(fs[resp.name].body.media))
        /\ DOMAIN fs[ImagesDir(resp.name)].files = RefFiles(resp.images)
        /\ Cardinality(RefFiles(resp.images)) = Len(resp.images)

\* C7 as amended: one reference per image entry, in archive order, each naming
\* <f>_images/<basename>; every referenced file is in the folder and holds the
\* bytes of the last image entry with that basename.  The folder may hold
\* other files, and entries with one basename share one file.
C7_ReferencesAreInFolder ==
    ViewedDocx =>
        LET entries == ImageEntries(fs[resp.name].body.media)
            files == fs[ImagesDir(resp.name)].files
        IN  /\ Len(resp.images) = Len(entries)
            /\ \A i \in 1..Len(entries) :
                  /\ resp.images[i] =
                        <<"uploads", ImagesDir(resp.name), Basename(entries[i].name)>>
                  /\ resp.images[i][3] \in DOMAIN files
                  /\ \E j \in i..Len(entries) :
                        /\ Basename(entries[j].name) = resp.images[i][3]
                        /\ files[resp.images[i][3]] = entries[j].data
                        /\ \A k \in (j + 1)..Len(entries) :
                              Basename(entries[k].name) # resp.images[i][3]

\* C7 witness: the second version of the document was previewed; its two
\* images are referenced and an image of the first version is still there.
C7_Witness ==
    /\ ViewedDocx
    /\ fs[resp.name].body = DocxB
    /\ Len(resp.images) = 2
    /\ (<<"i">> \o PngSuffix) \in DOMAIN fs[ImagesDir(resp.name)].files

\* C8: for every stored txt, pdf or docx file that both entry points can
\* read, the text of the download equals the text of the preview before its
\* blank lines are collapsed.
C8_DownloadEqualsPreviewText ==
    \A n \in ReqNames :
        (/\ IsFile(fs, n) /\ SupportedExt(n)
         /\ ~ViewExtract(fs, n).raised /\ ~DownloadExtract(fs, n).raised
         /\ ViewExtract(fs, n).content # MsgDocxEmpty)
        => DownloadExtract(fs, n).content = ViewExtract(fs, n).content

\* the lines of a text, split at its newlines
RECURSIVE SplitLines(_)
SplitLines(s) ==
    LET nls == {i \in 1..Len(s) : s[i] = "\n"}
    IN  IF nls = {} THEN <<s>>
        ELSE LET i == CHOOSE j \in nls : \A k \in nls : j <= k
             IN  <<SubSeq(s, 1, i - 1)>> \o SplitLines(SubSeq(s, i + 1, Len(s)))

\* for each non-blank line but the last, the number of blank lines after it
RECURSIVE BlankRuns(_)
BlankRuns(lines) ==
    IF lines = <<>> THEN <<>>
    ELSE IF IsBlank(Head(lines)) THEN BlankRuns(Tail(lines))
    ELSE IF SelectNonBlank(Tail(lines)) = <<>> THEN <<>>
    ELSE LET gap == CHOOSE n \in 0..Len(lines) :
                       /\ \A k \in 1..n : IsBlank(lines[1 + k])
                       /\ ~IsBlank(lines[2 + n])
         IN  <<gap>> \o BlankRuns(Tail(lines))

\* C9: the displayed text of a readable file carries no leading or trailing
\* whitespace and no two consecutive blank lines; the non-blank lines of the
\* trimmed text are kept unchanged and in order, and every run of blank lines
\* between two of them has become exactly one empty line.  A text with
\* nothing to show is replaced by the placeholder (or left empty beside images).
C9_DisplayedIsCollapsed ==
    nops = 1 =>
        LET trimmed == Strip(text)
            inLines == SplitLines(trimmed)
            outLines == SplitLines(shown)
        IN  /\ Strip(shown) = shown
            /\ \A i \in 1..(Len(outLines) - 1) :
                  ~(IsBlank(outLines[i]) /\ IsBlank(outLines[i + 1]))
            /\ IF trimmed = <<>>
               THEN shown = (IF resp.images = <<>> THEN MsgNoContent ELSE <<>>)
               ELSE /\ SelectNonBlank(outLines) = SelectNonBlank(inLines)
                    /\ \A i \in 1..Len(outLines) : IsBlank(outLines[i]) => outLines[i] = <<>>
                    /\ Len(BlankRuns(outLines)) = Len(BlankRuns(inLines))
                    /\ \A i \in 1..Len(BlankRuns(inLines)) :
                          BlankRuns(outLines)[i] = Min(1, BlankRuns(inLines)[i])

\* C9 witness: three newlines between two paragraphs are shown as one blank line.
C9_Witness ==
    /\ nops = 1
    /\ text = <<"a", "\n", "\n", "\n", "b">>
    /\ shown = <<"a", "\n", "\n", "b">>

AllWritersDone == \A i \in Writers : wr[i].pc = "done"

\* C6: once both concurrent writes of one name have completed, the file holds
\* entirely the content of one of the two requests, never a mixture.
C6_OneWriterWins ==
    (DOMAIN wr = Writers /\ AllWritersDone) => disk \in {wr[1].data, wr[2].data}

AllRequestsDone ==
    /\ \A i \in Viewers : vw[i].pc = "done"
    /\ \A i \in Deleters : dl[i] = "done"

\* C10: once the concurrent view and delete requests of a DOCX file have all
\* completed and the file is gone, its image folder is gone too.
C10_NoOrphanFolder ==
    (DOMAIN vw = Viewers /\ AllRequestsDone /\ ~Exists(fs, DocxName))
        => ~Exists(fs, DocxDir)

====
